---- MODULE Spec2Model ----
(***************************************************************************)
(* Model of paycalc's offer evaluation (src/src/lib/calculations.ts) and   *)
(* of its two callers: the page's results computation and what-if panel    *)
(* (src/src/app/page.tsx) and the text API's POST handler                  *)
(* (src/src/app/api/text/route.ts).                                        *)
(*                                                                         *)
(* A JavaScript number is modelled as an exact fraction [n, d]:            *)
(*   d > 0          the finite value n/d, in lowest terms                  *)
(*   d = 0, n = 1   Infinity        d = 0, n = -1   -Infinity              *)
(*   d = 0, n = 0   NaN                                                    *)
(* and the value undefined (an absent property) as [n |-> 0, d |-> -1].    *)
(* Binary floating point error (about 1e-16 relative) and the sign of zero *)
(* are not modelled: arithmetic on finite values is exact.                 *)
(***************************************************************************)
EXTENDS Integers, Sequences, FiniteSets, TLC

VARIABLES
  form,      \* the page's offer fields, as parseFloat / parseInt read them
  settings,  \* the page's settings state
  defaults,  \* the exported DEFAULT_SETTINGS object
  results,   \* the page's memoised results (Null, or evaluation / verdict / effectiveHourly)
  api,       \* the text API's last response: parsed input and evaluation
  direct,    \* the last direct call of a calculations.ts function: fn, its arguments, out
  waitTime   \* the page's what-if wait time (Null until a what-if button is pressed)

vars == <<form, settings, defaults, results, api, direct, waitTime>>

----------------------------------------------------------------------------
(* JavaScript numbers *)

Abs(i) == IF i < 0 THEN -i ELSE i

Sign(i) == IF i < 0 THEN -1 ELSE IF i > 0 THEN 1 ELSE 0

RECURSIVE GCD(_, _)
GCD(a, b) == IF b = 0 THEN a ELSE GCD(b, a % b)

\* the fraction n/d in its normal form (d may be negative or zero on entry)
Norm(n, d) ==
  IF d = 0 THEN [n |-> Sign(n), d |-> 0]
  ELSE LET g == GCD(Abs(n), Abs(d))
           s == IF d < 0 THEN -1 ELSE 1
       IN  [n |-> (s * n) \div g, d |-> (s * d) \div g]

NaN == [n |-> 0, d |-> 0]
PosInf == [n |-> 1, d |-> 0]
NegInf == [n |-> -1, d |-> 0]
Undefined == [n |-> 0, d |-> -1]

Whole(i) == [n |-> i, d |-> 1]
Frac(n, d) == Norm(n, d)
Zero == Whole(0)

\* ToNumber: undefined converts to NaN
Num(v) == IF v = Undefined THEN NaN ELSE v

IsNaN(a) == a.d = 0 /\ a.n = 0
IsFinite(a) == a.d > 0

Neg(a) == [n |-> -a.n, d |-> a.d]

Add(a, b) ==
  IF a.d = 0 /\ b.d = 0 THEN (IF a.n = b.n THEN a ELSE NaN)
  ELSE Norm(a.n * b.d + b.n * a.d, a.d * b.d)

Sub(a, b) == Add(a, Neg(b))

Mul(a, b) == Norm(a.n * b.n, a.d * b.d)

Div(a, b) ==
  IF a.d = 0 /\ b.d # 0 THEN Norm(a.n * (IF b.n < 0 THEN -1 ELSE 1), 0)
  ELSE Norm(a.n * b.d, a.d * b.n)

\* a <= b, a < b, a >= b, a > b: every comparison with NaN is false
Le(a, b) ==
  /\ ~IsNaN(a)
  /\ ~IsNaN(b)
  /\ IF a.d = 0 \/ b.d = 0
       THEN a = b \/ a = NegInf \/ b = PosInf
       ELSE a.n * b.d <= b.n * a.d

Lt(a, b) == Le(a, b) /\ a # b
Ge(a, b) == Le(b, a)
Gt(a, b) == Lt(b, a)

\* Math.min
Min(a, b) == IF IsNaN(a) \/ IsNaN(b) THEN NaN ELSE IF Le(a, b) THEN a ELSE b

\* Math.floor
Floor(a) == IF a.d = 0 THEN a ELSE Whole(a.n \div a.d)

\* Math.round: the nearest integer, a tie going up
Round(a) == Floor(Add(a, Frac(1, 2)))

\* Math.round(x * 100) / 100
Round2(a) == Div(Round(Mul(a, Whole(100))), Whole(100))

\* v ?? d and the destructuring default v = d: d replaces undefined only
Default(v, d) == IF v = Undefined THEN d ELSE v

\* v || d: d replaces every falsy v (0, NaN, undefined)
OrElse(v, d) == IF v = Undefined \/ IsNaN(v) \/ v = Zero THEN d ELSE v

----------------------------------------------------------------------------
(* src/src/lib/calculations.ts *)

\* x.toFixed(k) as a number: |x| rounded to k decimals, a tie going up
Pow10(k) == IF k = 0 THEN 1 ELSE IF k = 1 THEN 10 ELSE 100

\* mutant: toFixed has no value for NaN and the infinities
ToFixed_finiteOnly(x, k) ==
  IF x.d = 0 THEN Undefined
  ELSE LET m == Floor(Add(Mul(Whole(Abs(x.n)), Frac(Pow10(k), x.d)), Frac(1, 2)))
       IN  Norm(Sign(x.n) * m.n, Pow10(k))

ToFixed(x, k) ==
  IF x.d = 0 THEN x
  ELSE LET m == Floor(Add(Mul(Whole(Abs(x.n)), Frac(Pow10(k), x.d)), Frac(1, 2)))
       IN  Norm(Sign(x.n) * m.n, Pow10(k))

\* mutant: the two return percentages exchanged
DEFAULT_SETTINGS_returnsExchanged ==
  [ perPickup        |-> Whole(5),
    perDrop          |-> Whole(2),
    perItem          |-> Frac(3, 2),
    avgSpeed         |-> Whole(35),
    expectedPay      |-> Whole(21),
    maxOrdersPerHour |-> Whole(3),
    return1Drop      |-> Whole(50),
    return2Drop      |-> Whole(100),
    minHourlyPay     |-> Undefined,
    extraWaitTime    |-> Undefined ]

\* minHourlyPay and extraWaitTime are read by the page (page.tsx:34, 854) but are
\* no property of this object: reading them gives undefined
DEFAULT_SETTINGS ==
  [ perPickup        |-> Whole(5),
    perDrop          |-> Whole(2),
    perItem          |-> Frac(3, 2),
    avgSpeed         |-> Whole(35),
    expectedPay      |-> Whole(21),
    maxOrdersPerHour |-> Whole(3),
    return1Drop      |-> Whole(100),
    return2Drop      |-> Whole(50),
    minHourlyPay     |-> Undefined,
    extraWaitTime    |-> Undefined ]

\* mutant: the one-drop percentage used for two drops and the reverse
returnPercent_exchanged(drops, s) ==
  IF Ge(drops, Whole(2)) THEN s.return1Drop ELSE s.return2Drop

\* drops >= 2 ? return2Drop : return1Drop
returnPercent(drops, s) == IF Ge(drops, Whole(2)) THEN s.return2Drop ELSE s.return1Drop

(* Each function is written as its code is: the constants it computes, unrounded,
   and then its return statement, which rounds.  A value used by several later
   statements is handed on as a parameter. *)

\* mutant: the pickup time is left out of the fixed time
maxesBudget_dropsOnly(input, s) ==
  LET maxMins    == Mul(Div(input.pay, s.expectedPay), Whole(60))
      dropTime   == Mul(input.drops, s.perDrop)
  IN  [ maxMins |-> maxMins, fixedTime |-> dropTime ]

\* calculateMaxes: maxMins, fixedTime and remainingTime
maxesBudget(input, s) ==
  LET maxMins    == Mul(Div(input.pay, s.expectedPay), Whole(60))
      pickupTime == Mul(input.pickups, s.perPickup)
      dropTime   == Mul(input.drops, s.perDrop)
  IN  [ maxMins |-> maxMins, fixedTime |-> Add(pickupTime, dropTime) ]

\* mutant: the return leg is left out of the miles ceiling
maxesCeilings_noReturn(b, input, s) ==
  LET remainingTime == Sub(b.maxMins, b.fixedTime)
  IN  [ maxMins       |-> b.maxMins,
        fixedTime     |-> b.fixedTime,
        remainingTime |-> remainingTime,
        maxMiles      |-> Div(Mul(remainingTime, s.avgSpeed), Whole(60)),
        maxItems      |-> Div(remainingTime, s.perItem) ]

\* calculateMaxes: remainingTime, maxMiles and maxItems
maxesCeilings(b, input, s) ==
  LET remainingTime == Sub(b.maxMins, b.fixedTime)
      travelMultiplier == Add(Whole(1), Div(returnPercent(input.drops, s), Whole(100)))
      maxTravelTime == Div(remainingTime, travelMultiplier)
  IN  [ maxMins       |-> b.maxMins,
        fixedTime     |-> b.fixedTime,
        remainingTime |-> remainingTime,
        maxMiles      |-> Div(Mul(maxTravelTime, s.avgSpeed), Whole(60)),
        maxItems      |-> Div(remainingTime, s.perItem) ]

\* calculateMaxes: the constants before the return statement
maxesRaw(input, s) == maxesCeilings(maxesBudget(input, s), input, s)

\* mutant: the ceilings are clamped at 0
maxesReturn_clamped(m) ==
  [ maxMins   |-> Round2(m.maxMins),
    fixedTime |-> m.fixedTime,
    maxMiles  |-> IF Lt(m.maxMiles, Zero) THEN Zero ELSE Round2(m.maxMiles),
    maxItems  |-> IF Lt(m.maxItems, Zero) THEN Zero ELSE Floor(m.maxItems) ]

\* calculateMaxes: the return statement
maxesReturn(m) ==
  [ maxMins   |-> Round2(m.maxMins),
    fixedTime |-> m.fixedTime,
    maxMiles  |-> Round2(m.maxMiles),
    maxItems  |-> Floor(m.maxItems) ]

calculateMaxes(input, s) == maxesReturn(maxesRaw(input, s))

\* mutant: the travel time divides the speed by the miles
payReqLegs_inverted(input, s) ==
  LET travelTime == Mul(Div(s.avgSpeed, input.miles), Whole(60))
  IN  [ pickupTime   |-> Mul(input.pickups, s.perPickup),
        travelTime   |-> travelTime,
        dropTime     |-> Mul(input.drops, s.perDrop),
        shoppingTime |-> Mul(input.items, s.perItem),
        returnDelta  |-> Mul(travelTime, Div(returnPercent(input.drops, s), Whole(100))) ]

\* calculatePayReq: the five components of the time
payReqLegs(input, s) ==
  LET travelTime == Mul(Div(input.miles, s.avgSpeed), Whole(60))
  IN  [ pickupTime   |-> Mul(input.pickups, s.perPickup),
        travelTime   |-> travelTime,
        dropTime     |-> Mul(input.drops, s.perDrop),
        shoppingTime |-> Mul(input.items, s.perItem),
        returnDelta  |-> Mul(travelTime, Div(returnPercent(input.drops, s), Whole(100))) ]

\* mutant: the return leg is left out of the total
payReqTotals_noReturn(t, s) ==
  LET totalMins == Add(Add(Add(t.pickupTime, t.travelTime), t.dropTime), t.shoppingTime)
  IN  [ pickupTime   |-> t.pickupTime,
        travelTime   |-> t.travelTime,
        dropTime     |-> t.dropTime,
        shoppingTime |-> t.shoppingTime,
        returnDelta  |-> t.returnDelta,
        totalMins    |-> totalMins,
        payReq       |-> Mul(totalMins, Div(s.expectedPay, Whole(60))) ]

\* calculatePayReq: totalMins and payReq
payReqTotals(t, s) ==
  LET totalMins == Add(Add(Add(Add(t.pickupTime, t.travelTime), t.dropTime),
                           t.shoppingTime), t.returnDelta)
  IN  [ pickupTime   |-> t.pickupTime,
        travelTime   |-> t.travelTime,
        dropTime     |-> t.dropTime,
        shoppingTime |-> t.shoppingTime,
        returnDelta  |-> t.returnDelta,
        totalMins    |-> totalMins,
        payReq       |-> Mul(totalMins, Div(s.expectedPay, Whole(60))) ]

\* calculatePayReq: the constants before the return statement
\* mutant: the return percentage of one drop whatever the drops
payReqRaw_flatReturn(input, s) ==
  payReqTotals(payReqLegs(input, [s EXCEPT !.return2Drop = s.return1Drop]), s)

payReqRaw(input, s) == payReqTotals(payReqLegs(input, s), s)

\* calculatePayReq: the return statement
payReqReturn(r) ==
  [ pickupTime   |-> r.pickupTime,
    travelTime   |-> Round2(r.travelTime),
    dropTime     |-> r.dropTime,
    shoppingTime |-> r.shoppingTime,
    returnDelta  |-> Round2(r.returnDelta),
    totalMins    |-> Round2(r.totalMins),
    payReq       |-> Round2(r.payReq) ]

calculatePayReq(input, s) == payReqReturn(payReqRaw(input, s))

\* mutant: no cap on the orders per hour
ordersPerHour_uncapped(totalMins, s) ==
  IF Gt(totalMins, Zero) THEN Div(Whole(60), totalMins) ELSE Zero

\* payReq.totalMins > 0 ? Math.min(maxOrdersPerHour, 60 / payReq.totalMins) : 0
ordersPerHour(totalMins, s) ==
  IF Gt(totalMins, Zero) THEN Min(s.maxOrdersPerHour, Div(Whole(60), totalMins)) ELSE Zero

\* Math.round(pay * ordersPerHour * 100) / 100
effectiveHourlyOf(pay, totalMins, s) == Round2(Mul(pay, ordersPerHour(totalMins, s)))

\* mutant: the comparison the wrong way round
meetsRequired_flipped(pay, payReq, effectiveHourly, s) == Le(pay, payReq)

\* mutant: a pay equal to the required pay fails the test
meetsRequired_strict(pay, payReq, effectiveHourly, s) == Gt(pay, payReq)

\* the floor test of evaluateOffer
meetsRequired(pay, payReq, effectiveHourly, s) == Ge(pay, payReq)

\* mutant: the good and decent branches exchanged
determineVerdict_exchanged(pay, payReq, effectiveHourly, s) ==
  IF ~Ge(pay, payReq) THEN "bad"
  ELSE IF Ge(effectiveHourly, s.expectedPay) THEN "decent"
  ELSE "good"

\* the if / else-if / else chain that picks the verdict
determineVerdict(pay, payReq, effectiveHourly, s) ==
  IF ~meetsRequired(pay, payReq, effectiveHourly, s) THEN "bad"
  ELSE IF Ge(effectiveHourly, s.expectedPay) THEN "good"
  ELSE "decent"

verdictText(verdict) ==
  IF verdict = "bad" THEN "BAD" ELSE IF verdict = "good" THEN "GOOD" ELSE "DECENT"

\* mutant: the route summary also for 0 miles
buildSummary_fromZero(o, maxes, payReq, effectiveHourly, verdict, difference) ==
  IF Ge(o.miles, Zero)
    THEN [ branch |-> "route", verdictText |-> verdictText(verdict),
           hourly |-> effectiveHourly, minutes |-> ToFixed(payReq.totalMins, 1),
           difference |-> ToFixed(difference, 2),
           pay |-> Undefined, miles |-> Undefined ]
    ELSE [ branch |-> "limits", verdictText |-> "",
           hourly |-> Undefined, minutes |-> ToFixed(maxes.maxMins, 0),
           difference |-> Undefined,
           pay |-> o.pay, miles |-> ToFixed(maxes.maxMiles, 1) ]

\* the summary string, as the branch taken and the numbers it prints
buildSummary(o, maxes, payReq, effectiveHourly, verdict, difference) ==
  IF Gt(o.miles, Zero)
    THEN [ branch |-> "route", verdictText |-> verdictText(verdict),
           hourly |-> effectiveHourly, minutes |-> ToFixed(payReq.totalMins, 1),
           difference |-> ToFixed(difference, 2),
           pay |-> Undefined, miles |-> Undefined ]
    ELSE [ branch |-> "limits", verdictText |-> "",
           hourly |-> Undefined, minutes |-> ToFixed(maxes.maxMins, 0),
           difference |-> Undefined,
           pay |-> o.pay, miles |-> ToFixed(maxes.maxMiles, 1) ]

\* evaluateOffer: the return statement
offerReturn(o, maxes, payReq, effectiveHourly, verdict, difference) ==
  [ verdict         |-> verdict,
    verdictText     |-> verdictText(verdict),
    effectiveHourly |-> effectiveHourly,
    requiredPay     |-> payReq.payReq,
    difference      |-> difference,
    totalMinutes    |-> payReq.totalMins,
    maxMiles        |-> maxes.maxMiles,
    maxItems        |-> maxes.maxItems,
    maxMinutes      |-> maxes.maxMins,
    breakdown       |-> [ pickup   |-> payReq.pickupTime,
                          travel   |-> payReq.travelTime,
                          drop     |-> payReq.dropTime,
                          shopping |-> payReq.shoppingTime,
                          return   |-> payReq.returnDelta ],
    summary         |-> buildSummary(o, maxes, payReq, effectiveHourly, verdict,
                                     difference) ]

\* evaluateOffer: the verdict and the difference
offerVerdict(o, maxes, payReq, effectiveHourly, s) ==
  offerReturn(o, maxes, payReq, effectiveHourly,
              determineVerdict(o.pay, payReq.payReq, effectiveHourly, s),
              Round2(Sub(o.pay, payReq.payReq)))

\* evaluateOffer: the effective hourly rate
offerRates(o, maxes, payReq, s) ==
  offerVerdict(o, maxes, payReq, effectiveHourlyOf(o.pay, payReq.totalMins, s), s)

\* mutant: every omitted field defaults to 0
withDefaults_allZero(input) ==
  [ pay     |-> input.pay,
    pickups |-> Default(input.pickups, Zero),
    drops   |-> Default(input.drops, Zero),
    miles   |-> Default(input.miles, Zero),
    items   |-> Default(input.items, Zero) ]

\* const { pay, pickups = 1, drops = 1, miles = 0, items = 0 } = input
withDefaults(input) ==
  [ pay     |-> input.pay,
    pickups |-> Default(input.pickups, Whole(1)),
    drops   |-> Default(input.drops, Whole(1)),
    miles   |-> Default(input.miles, Zero),
    items   |-> Default(input.items, Zero) ]

\* mutant: the pickups and drops exchanged in the call of calculatePayReq
evaluateFilled_stopsExchanged(o, s) ==
  offerRates(o,
             calculateMaxes([pay |-> o.pay, pickups |-> o.pickups, drops |-> o.drops], s),
             calculatePayReq([pickups |-> o.drops, drops |-> o.pickups,
                              miles |-> o.miles, items |-> o.items], s),
             s)

\* evaluateOffer once the defaults are filled in
evaluateFilled(o, s) ==
  offerRates(o,
             calculateMaxes([pay |-> o.pay, pickups |-> o.pickups, drops |-> o.drops], s),
             calculatePayReq([pickups |-> o.pickups, drops |-> o.drops,
                              miles |-> o.miles, items |-> o.items], s),
             s)

evaluateOffer(input, s) == evaluateFilled(withDefaults(input), s)

----------------------------------------------------------------------------
(* The threshold table of an evaluation (spec section 4.2, "Threshold
   derivation").  The callers read it as evaluation.thresholds; it is derived
   from unrounded values. *)

\* the value of a threshold that cannot be reached (null)
Unreachable == [n |-> 0, d |-> -2]

\* "floor at 0"
AtLeastZero(v) == IF Lt(v, Zero) THEN Zero ELSE v

\* canBeGood = pay * maxOrdersPerHour >= expectedPay
canBeGood(o, s) == Ge(Mul(o.pay, s.maxOrdersPerHour), s.expectedPay)

\* mutant: 0 stands for a threshold that cannot be reached
goodGate_zero(can, v) == IF can THEN v ELSE Zero

\* a GOOD-side threshold: the value when canBeGood, unreachable otherwise
goodGate(can, v) == IF can THEN v ELSE Unreachable

\* mutant: the shopping time is not subtracted
milesWithin_noShopping(time, t, o, s) ==
  AtLeastZero(
    Div(Mul(Div(Sub(time, Add(t.pickupTime, t.dropTime)),
                Add(Whole(1), Div(returnPercent(o.drops, s), Whole(100)))),
            s.avgSpeed),
        Whole(60)))

\* the miles that fit in `time`: subtract the fixed (pickup + drop + shopping) time,
\* divide by the return multiplier, convert at avgSpeed, floor at 0
milesWithin(time, t, o, s) ==
  AtLeastZero(
    Div(Mul(Div(Sub(time, Add(Add(t.pickupTime, t.dropTime), t.shoppingTime)),
                Add(Whole(1), Div(returnPercent(o.drops, s), Whole(100)))),
            s.avgSpeed),
        Whole(60)))

\* the items that fit in `time`: subtract the fixed (pickup + drop + travel +
\* return) time, divide by perItem, floor to an integer, floor at 0
itemsWithin(time, t, s) ==
  AtLeastZero(
    Floor(Div(Sub(time, Add(Add(Add(t.pickupTime, t.dropTime), t.travelTime),
                            t.returnDelta)),
              s.perItem)))

\* mutant: the pay for GOOD at the cap, whatever the time of the order
minPayForGood_atCap(perHour, s) ==
  IF Gt(perHour, Zero) THEN Div(s.expectedPay, s.maxOrdersPerHour) ELSE Zero

\* minPayForGood = ordersPerHour > 0 ? expectedPay / ordersPerHour : 0
minPayForGood(perHour, s) ==
  IF Gt(perHour, Zero) THEN Div(s.expectedPay, perHour) ELSE Zero

\* mutant: the hourly floor is solved for whether it is active or not
timeBeforeBad_alwaysSolved(o, t, s, maxMinutes) ==
  LET solved   == Div(Mul(o.pay, Whole(60)), Num(s.minHourlyPay))
      boundary == Div(Whole(60), s.maxOrdersPerHour)
  IN  IF Le(t.totalMins, boundary) /\ Lt(solved, boundary) THEN boundary ELSE solved

\* mutant: the target rate is solved for instead of the hourly floor
timeBeforeBad_forTarget(o, t, s, maxMinutes) ==
  IF Gt(Num(s.minHourlyPay), Zero)
    THEN LET solved   == Div(Mul(o.pay, Whole(60)), s.expectedPay)
             boundary == Div(Whole(60), s.maxOrdersPerHour)
         IN  IF Le(t.totalMins, boundary) /\ Lt(solved, boundary)
               THEN boundary
               ELSE solved
    ELSE maxMinutes

\* the total time before BAD: with minHourlyPay active, the time solving
\* pay * 60 / T = minHourlyPay, looked for past the cap boundary when the order is
\* capped; with minHourlyPay inactive, the time for DECENT
timeBeforeBad(o, t, s, maxMinutes) ==
  IF Gt(Num(s.minHourlyPay), Zero)
    THEN LET solved   == Div(Mul(o.pay, Whole(60)), s.minHourlyPay)
             boundary == Div(Whole(60), s.maxOrdersPerHour)
         IN  IF Le(t.totalMins, boundary) /\ Lt(solved, boundary)
               THEN boundary
               ELSE solved
    ELSE maxMinutes

\* the table, from the time for DECENT and the time before BAD
thresholdTable(o, t, s, can, forDecent, beforeBad) ==
  [ canBeGood         |-> can,
    maxTimeForDecent  |-> forDecent,
    maxTimeForGood    |-> goodGate(can, forDecent),
    maxMilesForDecent |-> milesWithin(forDecent, t, o, s),
    maxMilesForGood   |-> goodGate(can, milesWithin(forDecent, t, o, s)),
    maxItemsForDecent |-> itemsWithin(forDecent, t, s),
    maxItemsForGood   |-> goodGate(can, itemsWithin(forDecent, t, s)),
    minPayForGood     |-> minPayForGood(ordersPerHour(t.totalMins, s), s),
    maxTimeBeforeBad  |-> beforeBad,
    maxMilesBeforeBad |-> milesWithin(beforeBad, t, o, s),
    maxItemsBeforeBad |-> itemsWithin(beforeBad, t, s) ]

\* maxMinutes = pay / expectedPay * 60 is the time for DECENT
thresholdsTimed(o, t, s, maxMinutes) ==
  thresholdTable(o, t, s, canBeGood(o, s), maxMinutes,
                 timeBeforeBad(o, t, s, maxMinutes))

thresholdsFilled(o, s) ==
  thresholdsTimed(o,
                  payReqRaw([pickups |-> o.pickups, drops |-> o.drops,
                             miles |-> o.miles, items |-> o.items], s),
                  s,
                  Mul(Div(o.pay, s.expectedPay), Whole(60)))

thresholds(input, s) == thresholdsFilled(withDefaults(input), s)

----------------------------------------------------------------------------
(* Bounds and input sets *)

MaxDrops == 2
MaxItems == 1

\* the pickup counts tried
PickupCounts == {1, 2}

Dollars(cents) == Frac(cents, 100)

Null == [null |-> TRUE]

\* what the form fields parse to: pay in cents, miles in tenths of a mile
FormPayCents == {0, 650, 850, 2100}
FormMilesTenths == {30, 350}

FormChoices ==
  [ pay     |-> {Dollars(c) : c \in FormPayCents},
    pickups |-> {Whole(i) : i \in PickupCounts},
    drops   |-> {Whole(i) : i \in 0..MaxDrops},
    miles   |-> {Frac(m, 10) : m \in FormMilesTenths},
    items   |-> {Whole(i) : i \in 0..MaxItems} ]

\* the values the settings panel is given, per field
SettingChoices ==
  [ minHourlyPay     |-> {Zero, Whole(25)},
    maxOrdersPerHour |-> {Whole(3), Whole(2)},
    avgSpeed         |-> {Whole(35), Zero} ]

\* the arguments of the direct calls: pay in cents, miles in tenths of a mile
PayCents == {0, 245, 650, 850, 2100, 4445}
MilesTenths == {0, 30, 100, 350}

OfferGrid ==
  [ pay     : {Dollars(c) : c \in PayCents},
    pickups : {Whole(i) : i \in PickupCounts},
    drops   : {Whole(i) : i \in 1..MaxDrops},
    miles   : {Frac(m, 10) : m \in MilesTenths},
    items   : {Whole(i) : i \in 0..MaxItems} ]

SettingsGrid ==
  { [DEFAULT_SETTINGS EXCEPT !.expectedPay = e, !.maxOrdersPerHour = m,
                             !.perPickup = f[1], !.perDrop = f[2],
                             !.minHourlyPay = h] :
      e \in {Whole(21), Whole(18)},
      m \in {Whole(3), Whole(2)},
      f \in {<<Whole(5), Whole(2)>>, <<Zero, Zero>>, <<Whole(10), Whole(10)>>},
      h \in {Zero, Whole(25)} }

\* what the text API's language model extracted: an absent field is undefined
ParsedGrid ==
  [ pay     : {Undefined, Zero, Dollars(703), Dollars(850), Dollars(1500), Dollars(2100)},
    pickups : {Undefined, Whole(1), Whole(2)},
    drops   : {Undefined, Zero, Whole(1), Whole(2)},
    miles   : {Undefined, Zero, Whole(3), Frac(382, 100), Whole(35)},
    items   : {Undefined, Zero, Whole(2)} ]

----------------------------------------------------------------------------
(* src/src/app/page.tsx: the results computation *)

\* parseFloat(pay) || 0, parseInt(pickups) || 1, ...
FormOffer(f) ==
  [ pay     |-> OrElse(f.pay, Zero),
    pickups |-> OrElse(f.pickups, Whole(1)),
    drops   |-> OrElse(f.drops, Whole(1)),
    miles   |-> OrElse(f.miles, Zero),
    items   |-> OrElse(f.items, Zero) ]

\* return { evaluation, verdict: evaluation.verdict, effectiveHourly: ... }
resultsReturn(evaluation) ==
  [ evaluation      |-> evaluation,
    verdict         |-> evaluation.verdict,
    effectiveHourly |-> evaluation.effectiveHourly ]

\* const results = useMemo(...)
Results(f, s) ==
  LET offer == FormOffer(f)
  IN  IF Le(offer.pay, Zero) \/ Le(offer.drops, Zero) THEN Null
      ELSE resultsReturn(evaluateOffer(offer, s))

(* src/src/app/api/text/route.ts: POST *)

\* the text API evaluates with DEFAULT_SETTINGS when it has a positive pay
PostEvaluation(parsed, d) ==
  IF parsed.pay # Undefined /\ Gt(parsed.pay, Zero)
    THEN evaluateOffer(parsed, d)
    ELSE Null

----------------------------------------------------------------------------
(* The page *)

Init ==
  /\ form = [pay |-> NaN, pickups |-> Whole(1), drops |-> Whole(1),
             miles |-> NaN, items |-> Zero]
  /\ settings = DEFAULT_SETTINGS
  /\ defaults = DEFAULT_SETTINGS
  /\ results = Results(form, settings)
  /\ api = Null
  /\ direct = Null
  /\ waitTime = Null

\* a form field changes and the memoised results are recomputed
SetField(field) ==
  \E v \in FormChoices[field] :
    /\ form' = [form EXCEPT ![field] = v]
    /\ results' = Results(form', settings)
    /\ UNCHANGED <<settings, defaults, api, direct, waitTime>>

SetPay == SetField("pay")
SetPickups == SetField("pickups")
SetDrops == SetField("drops")
SetMiles == SetField("miles")
SetItems == SetField("items")

\* updateSettings({ ...settings, field: v })
UpdateSettings ==
  \E field \in DOMAIN SettingChoices : \E v \in SettingChoices[field] :
    /\ settings' = [settings EXCEPT ![field] = v]
    /\ results' = Results(form, settings')
    /\ UNCHANGED <<form, defaults, api, direct, waitTime>>

\* the Reset defaults button: updateSettings(DEFAULT_SETTINGS)
ResetDefaults ==
  /\ settings' = defaults
  /\ results' = Results(form, settings')
  /\ UNCHANGED <<form, defaults, api, direct, waitTime>>

Next ==
  \/ SetPay
  \/ SetPickups
  \/ SetDrops
  \/ SetMiles
  \/ SetItems
  \/ UpdateSettings
  \/ ResetDefaults

Spec == Init /\ [][Next]_vars

----------------------------------------------------------------------------
(* The text API: a request waits for the language model, whose output is then
   parsed and evaluated *)

PostRequest ==
  /\ api' = [pending |-> TRUE]
  /\ UNCHANGED <<form, settings, defaults, results, direct, waitTime>>

PostRespond ==
  /\ api = [pending |-> TRUE]
  /\ \E parsed \in ParsedGrid :
       api' = [parsed |-> parsed, evaluation |-> PostEvaluation(parsed, defaults)]
  /\ UNCHANGED <<form, settings, defaults, results, direct, waitTime>>

NextApi ==
  \/ PostRequest
  \/ PostRespond

SpecApi == Init /\ [][NextApi]_vars

----------------------------------------------------------------------------
(* Direct calls of the three exported functions, over a grid of arguments *)

InitCalc ==
  /\ form = [pay |-> NaN, pickups |-> Whole(1), drops |-> Whole(1),
             miles |-> NaN, items |-> Zero]
  /\ settings = DEFAULT_SETTINGS
  /\ defaults = DEFAULT_SETTINGS
  /\ results = Null
  /\ api = Null
  /\ waitTime = Null
  /\ direct \in [fn : {"none"}, input : OfferGrid, s : SettingsGrid, out : {Null},
                 prev : {Null}]

\* direct.prev is the call before this one (its input and what it returned)
Call(fn, input, s, out, prev) ==
  /\ direct' = [fn |-> fn, input |-> input, s |-> s, out |-> out, prev |-> prev]
  /\ UNCHANGED <<form, settings, defaults, results, api, waitTime>>

MaxesInput(o) == [pay |-> o.pay, pickups |-> o.pickups, drops |-> o.drops]

PayReqInput(o) ==
  [pickups |-> o.pickups, drops |-> o.drops, miles |-> o.miles, items |-> o.items]

CallCalculateMaxes ==
  /\ direct.fn = "none"
  /\ Call("calculateMaxes", direct.input, direct.s,
          calculateMaxes(MaxesInput(direct.input), direct.s), Null)

CallCalculatePayReq ==
  /\ direct.fn = "none"
  /\ Call("calculatePayReq", direct.input, direct.s,
          calculatePayReq(PayReqInput(direct.input), direct.s), Null)

CallEvaluateOffer ==
  /\ direct.fn = "none"
  /\ Call("evaluateOffer", direct.input, direct.s,
          evaluateOffer(direct.input, direct.s), Null)

CallThresholds ==
  /\ direct.fn = "none"
  /\ Call("thresholds", direct.input, direct.s, thresholds(direct.input, direct.s), Null)

\* a second evaluation, of an offer that differs from the first in at most one field
EvaluateOther(field, values) ==
  /\ direct.fn = "evaluateOffer"
  /\ direct.prev = Null
  /\ \E v \in values :
       Call("evaluateOffer", [direct.input EXCEPT ![field] = v], direct.s,
            evaluateOffer([direct.input EXCEPT ![field] = v], direct.s),
            [input |-> direct.input, out |-> direct.out])

EvaluateOtherPay == EvaluateOther("pay", {Dollars(c) : c \in PayCents})
EvaluateOtherMiles == EvaluateOther("miles", {Frac(m, 10) : m \in MilesTenths})

NextCalc ==
  \/ CallCalculateMaxes
  \/ CallCalculatePayReq
  \/ CallEvaluateOffer
  \/ CallThresholds
  \/ EvaluateOtherPay
  \/ EvaluateOtherMiles

SpecCalc == InitCalc /\ [][NextCalc]_vars

----------------------------------------------------------------------------
(* src/src/app/page.tsx: the what-if delay calculator *)

\* Math.max
Max(a, b) == IF IsNaN(a) \/ IsNaN(b) THEN NaN ELSE IF Ge(a, b) THEN a ELSE b

\* parseInt(pickups) || 1
pickupsNum(f) == OrElse(f.pickups, Whole(1))

\* settings.perPickup * pickupsNum
baselineWaitTime(f, s) == Mul(s.perPickup, pickupsNum(f))

\* waitTime ?? settings.extraWaitTime
actualWaitTime(w, s) == IF w = Null THEN s.extraWaitTime ELSE w

\* actualWaitTime - baselineWaitTime
extraMins(f, s, w) == Sub(Num(actualWaitTime(w, s)), baselineWaitTime(f, s))

\* the new verdict of the impact calculation
newVerdict(meetsFloor, newEffectiveHourly, s) ==
  IF ~meetsFloor THEN "BAD"
  ELSE IF Ge(newEffectiveHourly, s.expectedPay) THEN "GOOD"
  ELSE "DECENT"

\* the floor test of the impact calculation
meetsFloor(currentPay, newTotalMins, newEffectiveHourly, s) ==
  IF Gt(Num(s.minHourlyPay), Zero)
    THEN Ge(newEffectiveHourly, s.minHourlyPay)
    ELSE Ge(currentPay, Div(Mul(newTotalMins, s.expectedPay), Whole(60)))

\* the rates of the impact calculation
impactRates(currentPay, newTotalMins, s) ==
  LET newOrdersPerHour == Min(s.maxOrdersPerHour, Div(Whole(60), newTotalMins))
  IN  [ newTotalMins       |-> newTotalMins,
        newOrdersPerHour   |-> newOrdersPerHour,
        newEffectiveHourly |-> Round2(Mul(currentPay, newOrdersPerHour)),
        payForGood         |-> Round2(Div(s.expectedPay, newOrdersPerHour)) ]

\* the impact calculation with its verdict
impactVerdict(currentPay, r, s) ==
  [ newTotalMins       |-> r.newTotalMins,
    newEffectiveHourly |-> r.newEffectiveHourly,
    payForGood         |-> r.payForGood,
    payDelta           |-> Sub(r.payForGood, currentPay),
    newVerdict         |-> newVerdict(meetsFloor(currentPay, r.newTotalMins,
                                                 r.newEffectiveHourly, s),
                                      r.newEffectiveHourly, s) ]

\* the impact calculation of the what-if panel, from the memoised results
Impact(f, s, res, w) ==
  LET currentPay == OrElse(f.pay, Zero)
  IN  impactVerdict(currentPay,
                    impactRates(currentPay,
                                Add(res.evaluation.totalMinutes, extraMins(f, s, w)), s),
                    s)

\* hasOffer && results && hasRoute: the panel and its buttons are rendered
PanelShown == Gt(form.pay, Zero) /\ results # Null /\ Gt(form.miles, Zero)

\* the largest wait time the buttons are followed to
MaxWait == 12

\* the minutes of the quick add buttons
QuickAdd == {5, 10, 15, 30}

\* the offers and settings the panel is opened on
WhatIfForms ==
  [ pay     : {Dollars(703), Dollars(850)},
    pickups : {Whole(1), Whole(2)},
    drops   : {Whole(1), Whole(2)},
    miles   : {Whole(3), Frac(382, 100)},
    items   : {Zero, Whole(1)} ]

WhatIfSettings ==
  { [DEFAULT_SETTINGS EXCEPT !.minHourlyPay = h, !.extraWaitTime = x] :
      h \in {Undefined, Zero, Whole(25)},
      x \in {Undefined, Whole(5), Whole(10)} }

InitWhatIf ==
  /\ form \in WhatIfForms
  /\ settings \in WhatIfSettings
  /\ defaults = DEFAULT_SETTINGS
  /\ results = Results(form, settings)
  /\ api = Null
  /\ direct = Null
  /\ waitTime = Null

SetWaitTime(w) ==
  /\ PanelShown
  /\ (w # Null /\ IsFinite(w)) => Le(w, Whole(MaxWait))
  /\ waitTime' = w
  /\ UNCHANGED <<form, settings, defaults, results, api, direct>>

\* Reset: setWaitTime(null)
WaitReset == SetWaitTime(Null)

\* setWaitTime(Math.max(0, actualWaitTime - 1))
WaitMinus ==
  SetWaitTime(Max(Zero, Sub(Num(actualWaitTime(waitTime, settings)), Whole(1))))

\* setWaitTime(actualWaitTime + 1)
WaitPlus == SetWaitTime(Add(Num(actualWaitTime(waitTime, settings)), Whole(1)))

\* setWaitTime(actualWaitTime + mins)
WaitQuickAdd ==
  \E mins \in QuickAdd :
    SetWaitTime(Add(Num(actualWaitTime(waitTime, settings)), Whole(mins)))

NextWhatIf ==
  \/ WaitReset
  \/ WaitMinus
  \/ WaitPlus
  \/ WaitQuickAdd

SpecWhatIf == InitWhatIf /\ [][NextWhatIf]_vars

----------------------------------------------------------------------------
(* Claims *)

Evaluated == direct.fn = "evaluateOffer"

\* GOOD > DECENT > BAD
Rank(verdict) == IF verdict = "good" THEN 2 ELSE IF verdict = "decent" THEN 1 ELSE 0

\* the last two evaluations differ in no field of the offer but `field`
OnlyDiffers(field) ==
  /\ Evaluated
  /\ direct.prev # Null
  /\ \A f \in DOMAIN direct.input \ {field} : direct.prev.input[f] = direct.input[f]

\* C1: evaluateOffer returns exactly one of the three verdicts: BAD if and only if
\* its floor test (pay >= requiredPay) fails, GOOD if and only if the floor test
\* passes and effectiveHourly >= expectedPay, DECENT in every remaining case.
C1_VerdictClassification ==
  Evaluated =>
    LET r      == direct.out
        floor  == Ge(direct.input.pay, r.requiredPay)
        target == Ge(r.effectiveHourly, direct.s.expectedPay)
    IN  /\ r.verdict \in {"good", "decent", "bad"}
        /\ (r.verdict = "bad") <=> ~floor
        /\ (r.verdict = "good") <=> (floor /\ target)
        /\ (r.verdict = "decent") <=> (floor /\ ~target)
        /\ r.verdictText = verdictText(r.verdict)

\* an offer that passes the floor test and misses the target rate is DECENT
C1_Witness ==
  /\ Evaluated
  /\ direct.out.verdict = "decent"
  /\ Ge(direct.input.pay, direct.out.requiredPay)
  /\ Lt(direct.out.effectiveHourly, direct.s.expectedPay)

\* C2: when minHourlyPay > 0 the verdict's floor test is effectiveHourly >=
\* minHourlyPay: the page's verdict is BAD exactly when the effective hourly rate
\* is below minHourlyPay, whatever pay >= requiredPay says.
C2_HourlyFloorDecides ==
  (results # Null /\ Gt(Num(settings.minHourlyPay), Zero)) =>
    ((results.verdict = "bad") <=>
       ~Ge(results.effectiveHourly, settings.minHourlyPay))

\* C3 as stated: of two evaluations that differ only in miles, the one with more
\* miles never has the better verdict.
C3_MilesMonotone ==
  (OnlyDiffers("miles") /\ Le(direct.prev.input.miles, direct.input.miles)) =>
    Rank(direct.out.verdict) <= Rank(direct.prev.out.verdict)

\* C3, amended: of two evaluations that differ only in miles, the one with more
\* miles never has the better verdict, provided the one with fewer miles reports a
\* totalMinutes above 0 (an order of no time at all has an effective hourly rate
\* of 0 and is DECENT at best, and miles make it longer than no time).
C3_MilesMonotoneTimed ==
  ( /\ OnlyDiffers("miles")
    /\ Le(direct.prev.input.miles, direct.input.miles)
    /\ Gt(direct.prev.out.totalMinutes, Zero) ) =>
    Rank(direct.out.verdict) <= Rank(direct.prev.out.verdict)

\* more miles turned a GOOD offer BAD
C3_Witness ==
  /\ OnlyDiffers("miles")
  /\ Lt(direct.prev.input.miles, direct.input.miles)
  /\ Gt(direct.prev.out.totalMinutes, Zero)
  /\ direct.prev.out.verdict = "good"
  /\ direct.out.verdict = "bad"

\* C4: of two evaluations that differ only in pay, the one with more pay never has
\* the worse verdict.
C4_PayMonotone ==
  (OnlyDiffers("pay") /\ Le(direct.prev.input.pay, direct.input.pay)) =>
    Rank(direct.out.verdict) >= Rank(direct.prev.out.verdict)

\* more pay turned a BAD offer GOOD
C4_Witness ==
  /\ OnlyDiffers("pay")
  /\ Lt(direct.prev.input.pay, direct.input.pay)
  /\ direct.prev.out.verdict = "bad"
  /\ direct.out.verdict = "good"

\* C6: with minHourlyPay = 0, evaluateOffer returns BAD if and only if pay is below
\* the requiredPay that calculatePayReq returns for the same offer and settings.
C6_BadBoundaryRoundTrip ==
  (Evaluated /\ direct.s.minHourlyPay = Zero) =>
    ((direct.out.verdict = "bad") <=>
       Lt(direct.input.pay, calculatePayReq(PayReqInput(direct.input), direct.s).payReq))

\* a positive pay that equals requiredPay to the cent: on the boundary, not BAD
C6_Witness ==
  /\ Evaluated
  /\ direct.s.minHourlyPay = Zero
  /\ Gt(direct.input.pay, Zero)
  /\ direct.input.pay = calculatePayReq(PayReqInput(direct.input), direct.s).payReq
  /\ direct.out.verdict # "bad"

\* C7: effectiveHourly is pay * ordersPerHour rounded to cents, where ordersPerHour
\* is min(maxOrdersPerHour, 60 / totalMinutes) when totalMinutes > 0 and 0
\* otherwise; so it never exceeds pay * maxOrdersPerHour (to the cent) and is 0
\* when totalMinutes is 0.
C7_ThroughputCap ==
  Evaluated =>
    LET t       == direct.out.totalMinutes
        cap     == direct.s.maxOrdersPerHour
        perHour == Div(Whole(60), t)
        orders  == IF Gt(t, Zero) THEN (IF Le(cap, perHour) THEN cap ELSE perHour)
                   ELSE Zero
    IN  /\ direct.out.effectiveHourly = Round2(Mul(direct.input.pay, orders))
        /\ Le(direct.out.effectiveHourly, Round2(Mul(direct.input.pay, cap)))
        /\ (t = Zero) => (direct.out.effectiveHourly = Zero)

\* an order so short that 60 / totalMinutes exceeds the cap: the rate is pay * cap
C7_Witness ==
  /\ Evaluated
  /\ Gt(direct.input.pay, Zero)
  /\ Gt(direct.out.totalMinutes, Zero)
  /\ Gt(Div(Whole(60), direct.out.totalMinutes), direct.s.maxOrdersPerHour)
  /\ direct.out.effectiveHourly = Round2(Mul(direct.input.pay, direct.s.maxOrdersPerHour))

\* C8: calculatePayReq follows the time model: the return percentage is return2Drop
\* for 2 or more drops and return1Drop otherwise; travelTime = miles / avgSpeed * 60;
\* returnDelta = travelTime * returnPercent / 100; totalMinutes is the sum of the
\* five components; requiredPay = totalMinutes * expectedPay / 60; travelTime,
\* returnDelta, totalMins and payReq are returned rounded to 2 decimals and the
\* pickup, drop and shopping times as the products they are.
C8_TimeModel ==
  (direct.fn = "calculatePayReq") =>
    LET o      == direct.input
        s      == direct.s
        pct    == IF o.drops.n >= 2 * o.drops.d THEN s.return2Drop ELSE s.return1Drop
        travel == Div(Mul(o.miles, Whole(60)), s.avgSpeed)
        back   == Div(Mul(travel, pct), Whole(100))
        pickup == Mul(o.pickups, s.perPickup)
        drop   == Mul(o.drops, s.perDrop)
        shop   == Mul(o.items, s.perItem)
        total  == Add(pickup, Add(travel, Add(drop, Add(shop, back))))
        needed == Div(Mul(total, s.expectedPay), Whole(60))
    IN  direct.out = [ pickupTime   |-> pickup,
                       travelTime   |-> Round2(travel),
                       dropTime     |-> drop,
                       shoppingTime |-> shop,
                       returnDelta  |-> Round2(back),
                       totalMins    |-> Round2(total),
                       payReq       |-> Round2(needed) ]

\* a two-drop route: the return leg is return2Drop percent of the travel time
C8_Witness ==
  /\ direct.fn = "calculatePayReq"
  /\ direct.input.drops = Whole(2)
  /\ Gt(direct.input.miles, Zero)
  /\ direct.s.return2Drop # direct.s.return1Drop
  /\ direct.out.returnDelta =
       Round2(Div(Mul(direct.out.travelTime, direct.s.return2Drop), Whole(100)))
  /\ Gt(direct.out.payReq, Zero)

\* C9: calculateMaxes follows the maxima model: maxMinutes = pay / expectedPay * 60;
\* remainingTime = maxMinutes - (pickups * perPickup + drops * perDrop);
\* maxMiles = remainingTime / (1 + returnPercent / 100) * avgSpeed / 60;
\* maxItems = floor(remainingTime / perItem); each ceiling is computed from the
\* whole remainingTime.  maxMins and maxMiles are returned rounded to 2 decimals.
C9_MaximaModel ==
  (direct.fn = "calculateMaxes") =>
    LET o         == direct.input
        s         == direct.s
        pct       == IF o.drops.n >= 2 * o.drops.d THEN s.return2Drop ELSE s.return1Drop
        budget    == Div(Mul(o.pay, Whole(60)), s.expectedPay)
        fixed     == Add(Mul(o.pickups, s.perPickup), Mul(o.drops, s.perDrop))
        remaining == Sub(budget, fixed)
        miles     == Div(Mul(Div(remaining, Div(Add(Whole(100), pct), Whole(100))),
                             s.avgSpeed), Whole(60))
        items     == Div(remaining, s.perItem)
    IN  direct.out = [ maxMins   |-> Round2(budget),
                       fixedTime |-> fixed,
                       maxMiles  |-> Round2(miles),
                       maxItems  |-> Floor(items) ]

\* a pay that leaves time after the stops: both ceilings are positive at once
C9_Witness ==
  /\ direct.fn = "calculateMaxes"
  /\ direct.input.drops = Whole(2)
  /\ Gt(direct.out.fixedTime, Zero)
  /\ Gt(direct.out.maxMiles, Zero)
  /\ Gt(direct.out.maxItems, Zero)

Responded == "parsed" \in DOMAIN api

\* { pay: 21, pickups: 1, drops: 1, miles: 35 }
ScenarioA ==
  [ pay |-> Whole(21), pickups |-> Whole(1), drops |-> Whole(1),
    miles |-> Whole(35), items |-> Undefined ]

\* C10: with DEFAULT_SETTINGS, the offer pay 21, 1 pickup, 1 drop, 35 miles is
\* reported with travel 60 min, return 60 min, pickup 5 min, drop 2 min,
\* totalMinutes 127, requiredPay 44.45 and verdict BAD.
C10_ScenarioA ==
  (Responded /\ api.parsed = ScenarioA) =>
    /\ api.evaluation.breakdown.travel = Whole(60)
    /\ api.evaluation.breakdown.return = Whole(60)
    /\ api.evaluation.breakdown.pickup = Whole(5)
    /\ api.evaluation.breakdown.drop = Whole(2)
    /\ api.evaluation.totalMinutes = Whole(127)
    /\ api.evaluation.requiredPay = Dollars(4445)
    /\ api.evaluation.verdict = "bad"

\* the text API answered for that offer
C10_Witness ==
  /\ Responded
  /\ api.parsed = ScenarioA
  /\ api.evaluation # Null
  /\ Lt(api.parsed.pay, api.evaluation.requiredPay)

\* { pay: 8.5, pickups: 1, drops: 1, miles: 3 }
ScenarioB ==
  [ pay |-> Dollars(850), pickups |-> Whole(1), drops |-> Whole(1),
    miles |-> Whole(3), items |-> Undefined ]

\* C11: with DEFAULT_SETTINGS, the offer pay 8.5, 1 pickup, 1 drop, 3 miles is
\* throughput-capped (60 / totalMinutes is above the cap, so ordersPerHour = 3),
\* has effectiveHourly 25.5 and requiredPay 6.05, and is GOOD.
C11_ScenarioB ==
  (Responded /\ api.parsed = ScenarioB) =>
    /\ Gt(Div(Whole(60), api.evaluation.totalMinutes), Whole(3))
    /\ ordersPerHour(api.evaluation.totalMinutes, defaults) = Whole(3)
    /\ api.evaluation.effectiveHourly = Frac(51, 2)
    /\ api.evaluation.requiredPay = Dollars(605)
    /\ api.evaluation.verdict = "good"

\* the text API answered for that offer, with a rate of three times the pay
C11_Witness ==
  /\ Responded
  /\ api.parsed = ScenarioB
  /\ api.evaluation # Null
  /\ api.evaluation.effectiveHourly = Mul(api.parsed.pay, defaults.maxOrdersPerHour)

\* { pay: 15, pickups: 1, drops: 1, miles: 0, items: 0 }
ScenarioC ==
  [ pay |-> Whole(15), pickups |-> Whole(1), drops |-> Whole(1),
    miles |-> Zero, items |-> Zero ]

\* C12: the summary of evaluateOffer is the maxima summary (the pay, the max miles
\* and the max minutes) exactly when miles is 0 or omitted, and the effective-hourly /
\* total-minutes / difference summary exactly when miles > 0; the offer pay 15,
\* 1 pickup, 1 drop, 0 miles, 0 items takes the maxima branch.
C12_SummaryBranch ==
  (Responded /\ api.evaluation # Null) =>
    LET miles == api.parsed.miles
        e     == api.evaluation
        none  == miles = Undefined \/ miles = Zero
    IN  /\ e.summary.branch \in {"route", "limits"}
        /\ (e.summary.branch = "limits") <=> none
        /\ (e.summary.branch = "route") <=> (~none /\ Gt(miles, Zero))
        /\ none => /\ e.summary.pay = api.parsed.pay
                   /\ e.summary.miles = ToFixed(e.maxMiles, 1)
                   /\ e.summary.minutes = ToFixed(e.maxMinutes, 0)
        /\ ~none => /\ e.summary.verdictText = e.verdictText
                    /\ e.summary.hourly = e.effectiveHourly
                    /\ e.summary.minutes = ToFixed(e.totalMinutes, 1)
                    /\ e.summary.difference = ToFixed(e.difference, 2)
        /\ (api.parsed = ScenarioC) => (e.summary.branch = "limits")

\* the text API answered for pay 15 and 0 miles with the maxima summary
C12_Witness ==
  /\ Responded
  /\ api.parsed = ScenarioC
  /\ api.evaluation # Null
  /\ api.evaluation.summary.branch = "limits"
  /\ Gt(api.evaluation.summary.miles, Zero)

\* C13: when avgSpeed or expectedPay is 0 (or totalMinutes is 0), no field that
\* feeds the verdict (requiredPay, totalMinutes, effectiveHourly) is NaN or
\* Infinity.
C13_ZeroDivisorsGuarded ==
  ( /\ results # Null
    /\ \/ settings.avgSpeed = Zero
       \/ settings.expectedPay = Zero
       \/ results.evaluation.totalMinutes = Zero ) =>
    /\ IsFinite(results.evaluation.requiredPay)
    /\ IsFinite(results.evaluation.totalMinutes)
    /\ IsFinite(results.effectiveHourly)

\* a JavaScript number: a fraction, an infinity or NaN, not undefined
IsNumber(v) ==
  /\ DOMAIN v = {"n", "d"}
  /\ v.d >= 0
  /\ (v.d = 0) => (v.n \in {-1, 0, 1})

\* every field of an evaluation holds a value of its type
IsEvaluation(e) ==
  /\ e.verdict \in {"good", "decent", "bad"}
  /\ e.verdictText \in {"GOOD", "DECENT", "BAD"}
  /\ \A f \in {"effectiveHourly", "requiredPay", "difference", "totalMinutes",
               "maxMiles", "maxItems", "maxMinutes"} : IsNumber(e[f])
  /\ DOMAIN e.breakdown = {"pickup", "travel", "drop", "shopping", "return"}
  /\ \A f \in DOMAIN e.breakdown : IsNumber(e.breakdown[f])
  /\ IF e.summary.branch = "route"
       THEN \A f \in {"hourly", "minutes", "difference"} : IsNumber(e.summary[f])
       ELSE /\ e.summary.branch = "limits"
            /\ \A f \in {"pay", "miles", "minutes"} : IsNumber(e.summary[f])

C15_RoundingPresentationOnly ==
  Evaluated =>
    LET raw    == payReqRaw(PayReqInput(direct.input), direct.s)
        hourly == Round2(Mul(direct.input.pay, ordersPerHour(raw.totalMins, direct.s)))
    IN  /\ direct.out.effectiveHourly = hourly
        /\ direct.out.verdict =
             determineVerdict(direct.input.pay, raw.payReq, hourly, direct.s)

\* C16: a caller evaluates an offer only when its pay > 0 and its drops > 0: the
\* text API returns an evaluation for no offer whose pay is absent or <= 0 or whose
\* drops are <= 0.
C16_CallersSuppressInvalid ==
  (Responded /\ api.evaluation # Null) =>
    /\ api.parsed.pay # Undefined
    /\ Gt(api.parsed.pay, Zero)
    /\ (api.parsed.drops # Undefined) => Gt(api.parsed.drops, Zero)

\* the offer with pickups = 1, drops = 1, miles = 0, items = 0 written out for the
\* fields it omits
Explicit(parsed) ==
  [ pay     |-> parsed.pay,
    pickups |-> IF parsed.pickups = Undefined THEN Whole(1) ELSE parsed.pickups,
    drops   |-> IF parsed.drops = Undefined THEN Whole(1) ELSE parsed.drops,
    miles   |-> IF parsed.miles = Undefined THEN Zero ELSE parsed.miles,
    items   |-> IF parsed.items = Undefined THEN Zero ELSE parsed.items ]

\* C17: an evaluation of an offer that omits any of pickups, drops, miles, items
\* equals, field for field, the evaluation of the same offer with pickups = 1,
\* drops = 1, miles = 0, items = 0 supplied for the omitted ones.
C17_OptionalDefaults ==
  (Responded /\ api.evaluation # Null) =>
    api.evaluation = evaluateOffer(Explicit(api.parsed), defaults)

\* the text API evaluated an offer that gave nothing but its pay
C17_Witness ==
  /\ Responded
  /\ api.evaluation # Null
  /\ \A f \in {"pickups", "drops", "miles", "items"} : api.parsed[f] = Undefined
  /\ api.evaluation.breakdown.pickup = defaults.perPickup
  /\ api.evaluation.breakdown.drop = defaults.perDrop
  /\ api.evaluation.breakdown.travel = Zero
  /\ api.evaluation.breakdown.shopping = Zero

Thresholded == direct.fn = "thresholds"

\* C18: canBeGood is pay * maxOrdersPerHour >= expectedPay, and whenever it is false
\* maxMilesForGood, maxTimeForGood and maxItemsForGood are all the unreachable
\* marker, never a number.
C18_CanBeGoodGating ==
  Thresholded =>
    LET th == direct.out
    IN  /\ th.canBeGood <=>
             Ge(Mul(direct.input.pay, direct.s.maxOrdersPerHour), direct.s.expectedPay)
        /\ ~th.canBeGood =>
             /\ th.maxMilesForGood = Unreachable
             /\ th.maxTimeForGood = Unreachable
             /\ th.maxItemsForGood = Unreachable
             /\ ~IsNumber(th.maxMilesForGood)
             /\ ~IsNumber(th.maxTimeForGood)
             /\ ~IsNumber(th.maxItemsForGood)

\* a pay too small for GOOD at any duration, whose DECENT thresholds are positive
C18_Witness ==
  /\ Thresholded
  /\ Gt(direct.input.pay, Zero)
  /\ ~direct.out.canBeGood
  /\ Gt(direct.out.maxTimeForDecent, Zero)
  /\ Gt(direct.out.maxMilesForDecent, Zero)
  /\ direct.out.maxMilesForGood = Unreachable

\* C19: when minHourlyPay = 0 the before-BAD thresholds (miles, time, items) equal
\* the for-DECENT thresholds, for every offer.
C19_BeforeBadCollapses ==
  (Thresholded /\ direct.s.minHourlyPay = Zero) =>
    /\ direct.out.maxMilesBeforeBad = direct.out.maxMilesForDecent
    /\ direct.out.maxTimeBeforeBad = direct.out.maxTimeForDecent
    /\ direct.out.maxItemsBeforeBad = direct.out.maxItemsForDecent

\* an offer with room left in each dimension, the hourly floor being off
C19_Witness ==
  /\ Thresholded
  /\ direct.s.minHourlyPay = Zero
  /\ Gt(direct.out.maxTimeBeforeBad, Zero)
  /\ Gt(direct.out.maxMilesBeforeBad, Zero)
  /\ Gt(direct.out.maxItemsBeforeBad, Zero)
  /\ direct.out.maxItemsBeforeBad = direct.out.maxItemsForDecent

\* the cap boundary 60 / maxOrdersPerHour
CapBoundary == Div(Whole(60), direct.s.maxOrdersPerHour)

\* the unrounded total time of the offer of the call
TotalTime == payReqRaw(PayReqInput(direct.input), direct.s).totalMins

\* pay * min(maxOrdersPerHour, 60 / T) >= minHourlyPay
FloorMetAt(T) ==
  LET perHour == Div(Whole(60), T)
      orders  == IF Le(direct.s.maxOrdersPerHour, perHour)
                   THEN direct.s.maxOrdersPerHour ELSE perHour
  IN  Ge(Mul(direct.input.pay, orders), direct.s.minHourlyPay)

\* what C20 says of maxTimeBeforeBad = T: at or past the cap boundary when the offer
\* is capped, T solves pay * 60 / T = minHourlyPay, and T is the largest total time
\* at which the floor holds
TimeBeforeBadIs(T) ==
  /\ Le(TotalTime, CapBoundary) => Ge(T, CapBoundary)
  /\ Mul(direct.input.pay, Whole(60)) = Mul(direct.s.minHourlyPay, T)
  /\ FloorMetAt(T)
  /\ \A more \in {Frac(1, 100), Whole(1), Whole(30)} : ~FloorMetAt(Add(T, more))

\* C20 as stated: whenever minHourlyPay > 0, capped or not, maxTimeBeforeBad is that
\* time.
C20_TimeBeforeBad ==
  (Thresholded /\ Gt(direct.s.minHourlyPay, Zero)) =>
    TimeBeforeBadIs(direct.out.maxTimeBeforeBad)

\* C20, amended: when minHourlyPay > 0 and pay * maxOrdersPerHour >= minHourlyPay
\* (the floor holds at the cap), maxTimeBeforeBad is never below the cap boundary
\* for a capped offer, solves pay * 60 / T = minHourlyPay, and is the largest total
\* time at which pay * min(maxOrdersPerHour, 60 / T) >= minHourlyPay holds.
C20_TimeBeforeBadReachable ==
  ( /\ Thresholded
    /\ Gt(direct.s.minHourlyPay, Zero)
    /\ Ge(Mul(direct.input.pay, direct.s.maxOrdersPerHour), direct.s.minHourlyPay) ) =>
    TimeBeforeBadIs(direct.out.maxTimeBeforeBad)

\* an offer whose total time is exactly the cap boundary, with time left before BAD
C20_Witness ==
  /\ Thresholded
  /\ Gt(direct.s.minHourlyPay, Zero)
  /\ TotalTime = CapBoundary
  /\ Gt(direct.out.maxTimeBeforeBad, CapBoundary)
  /\ FloorMetAt(direct.out.maxTimeBeforeBad)

\* the unrounded required pay of the offer of the call, at `miles` instead of its own
RequiredPayAtMiles(miles) ==
  payReqRaw(PayReqInput([direct.input EXCEPT !.miles = miles]), direct.s).payReq

\* C21: maxMilesForDecent equals max(0, (maxMinutes - pickupTime - dropTime -
\* shoppingTime) / (1 + returnPercent / 100) * avgSpeed / 60), is never negative,
\* is the same whatever the miles of the offer, and when it is positive an offer
\* with the same pay, pickups, drops and items has unrounded requiredPay <= pay
\* exactly when its miles <= maxMilesForDecent.
C21_MaxMilesForDecent ==
  Thresholded =>
    LET o      == direct.input
        s      == direct.s
        pct    == IF o.drops.n >= 2 * o.drops.d THEN s.return2Drop ELSE s.return1Drop
        budget == Div(Mul(o.pay, Whole(60)), s.expectedPay)
        fixed  == Add(Add(Mul(o.pickups, s.perPickup), Mul(o.drops, s.perDrop)),
                      Mul(o.items, s.perItem))
        fit    == Div(Mul(Div(Sub(budget, fixed), Div(Add(Whole(100), pct), Whole(100))),
                          s.avgSpeed), Whole(60))
        limit  == direct.out.maxMilesForDecent
        probes == {Frac(m, 10) : m \in MilesTenths}
                    \cup {limit, Add(limit, Frac(1, 100)), Div(limit, Whole(2))}
    IN  /\ limit = (IF Lt(fit, Zero) THEN Zero ELSE fit)
        /\ Ge(limit, Zero)
        /\ \A m \in MilesTenths :
             thresholds([o EXCEPT !.miles = Frac(m, 10)], s).maxMilesForDecent = limit
        /\ Gt(limit, Zero) =>
             \A m \in probes : Le(RequiredPayAtMiles(m), o.pay) <=> Le(m, limit)

\* an offer with items whose miles are above a positive maxMilesForDecent
C21_Witness ==
  /\ Thresholded
  /\ Gt(direct.input.items, Zero)
  /\ Gt(direct.out.maxMilesForDecent, Zero)
  /\ Gt(direct.input.miles, direct.out.maxMilesForDecent)
  /\ Gt(RequiredPayAtMiles(direct.input.miles), direct.input.pay)
  /\ RequiredPayAtMiles(direct.out.maxMilesForDecent) = direct.input.pay

\* orders per hour at the unrounded total time of the offer of the call
OrdersPerHourNow ==
  IF Gt(TotalTime, Zero)
    THEN (IF Le(direct.s.maxOrdersPerHour, Div(Whole(60), TotalTime))
            THEN direct.s.maxOrdersPerHour ELSE Div(Whole(60), TotalTime))
    ELSE Zero

C23_Composition ==
  Evaluated =>
    LET need == calculatePayReq(PayReqInput(direct.input), direct.s)
        most == calculateMaxes(MaxesInput(direct.input), direct.s)
        e    == direct.out
    IN  /\ e.requiredPay = need.payReq
        /\ e.totalMinutes = need.totalMins
        /\ e.breakdown = [ pickup   |-> need.pickupTime,
                           travel   |-> need.travelTime,
                           drop     |-> need.dropTime,
                           shopping |-> need.shoppingTime,
                           return   |-> need.returnDelta ]
        /\ e.maxMiles = most.maxMiles
        /\ e.maxItems = most.maxItems
        /\ e.maxMinutes = most.maxMins

\* an evaluation with more pickups than drops and every component of time positive
C23_Witness ==
  /\ Evaluated
  /\ Gt(direct.input.pickups, direct.input.drops)
  /\ \A f \in DOMAIN direct.out.breakdown : Gt(direct.out.breakdown[f], Zero)
  /\ direct.out.breakdown.pickup # direct.out.breakdown.drop
  /\ Gt(direct.out.maxMiles, Zero)

\* C24: DECENT occurs only for capped orders: when totalMinutes >= 60 /
\* maxOrdersPerHour, pay >= requiredPay implies effectiveHourly >= expectedPay, so
\* the verdict is GOOD or BAD; a DECENT verdict implies totalMinutes < 60 /
\* maxOrdersPerHour.
C24_DecentOnlyWhenCapped ==
  (Responded /\ api.evaluation # Null) =>
    LET e        == api.evaluation
        boundary == Div(Whole(60), defaults.maxOrdersPerHour)
    IN  /\ Ge(e.totalMinutes, boundary) =>
             /\ Ge(api.parsed.pay, e.requiredPay) =>
                  Ge(e.effectiveHourly, defaults.expectedPay)
             /\ e.verdict \in {"good", "bad"}
        /\ (e.verdict = "decent") => Lt(e.totalMinutes, boundary)

\* C25: for every offer whose pay is a whole number of cents the verdict is BAD if
\* and only if the returned difference is strictly negative, and the difference
\* equals pay minus the returned requiredPay.
C25_DifferenceAgrees ==
  (results # Null /\ Round2(FormOffer(form).pay) = FormOffer(form).pay) =>
    LET e == results.evaluation
    IN  /\ (e.verdict = "bad") <=> Lt(e.difference, Zero)
        \* a NaN difference equals no number
        /\ ~IsNaN(e.difference)
        /\ e.difference = Sub(FormOffer(form).pay, e.requiredPay)

MaxesCalled == direct.fn = "calculateMaxes"

\* the unrounded calculatePayReq of the offer of the call, at `miles` and `items`
PayReqAt(miles, items) ==
  payReqRaw(PayReqInput([direct.input EXCEPT !.miles = miles, !.items = items]), direct.s)

\* C26: with remainingTime >= 0, an offer with miles equal to the unrounded maxMiles
\* and no items has unrounded totalMinutes equal to maxMinutes and unrounded
\* requiredPay equal to pay; an offer with no miles and items = maxItems has
\* unrounded requiredPay <= pay, and with items = maxItems + 1 it has unrounded
\* requiredPay > pay.
C26_MaxesInvertPayReq ==
  MaxesCalled =>
    LET m == maxesRaw(MaxesInput(direct.input), direct.s)
    IN  Ge(m.remainingTime, Zero) =>
          /\ PayReqAt(m.maxMiles, Zero).totalMins = m.maxMins
          /\ PayReqAt(m.maxMiles, Zero).payReq = direct.input.pay
          /\ Le(PayReqAt(Zero, direct.out.maxItems).payReq, direct.input.pay)
          /\ Gt(PayReqAt(Zero, Add(direct.out.maxItems, Whole(1))).payReq,
                direct.input.pay)

C26_Witness ==
  /\ MaxesCalled
  /\ Gt(maxesRaw(MaxesInput(direct.input), direct.s).remainingTime, Zero)
  /\ Gt(direct.out.maxMiles, Zero)
  /\ Ge(direct.out.maxItems, Whole(2))
  /\ direct.input.drops = Whole(2)
  /\ Lt(PayReqAt(Zero, direct.out.maxItems).payReq, direct.input.pay)

\* the pay of the call buys at least the fixed pickup and drop time
CoversFixedTime ==
  LET b == maxesBudget(MaxesInput(direct.input), direct.s)
  IN  Ge(b.maxMins, b.fixedTime)

\* C27: calculateMaxes does not clamp: the returned maxItems is >= 0 if and only if
\* maxMinutes >= pickups * perPickup + drops * perDrop, the returned maxMiles is
\* >= 0 when that holds and <= 0 otherwise, and evaluateOffer passes both through
\* unchanged, negative values included.
C27_MaxesNotClamped ==
  /\ MaxesCalled =>
       /\ Ge(direct.out.maxItems, Zero) <=> CoversFixedTime
       /\ IF CoversFixedTime THEN Ge(direct.out.maxMiles, Zero)
                             ELSE Le(direct.out.maxMiles, Zero)
  /\ Evaluated =>
       /\ direct.out.maxItems = calculateMaxes(MaxesInput(direct.input), direct.s).maxItems
       /\ direct.out.maxMiles = calculateMaxes(MaxesInput(direct.input), direct.s).maxMiles
       /\ Ge(direct.out.maxItems, Zero) <=> CoversFixedTime

C27_Witness ==
  /\ Evaluated
  /\ Gt(direct.input.pay, Zero)
  /\ ~CoversFixedTime
  /\ Lt(direct.out.maxItems, Zero)
  /\ Lt(direct.out.maxMiles, Zero)

\* C28: when the simulated wait equals the baseline (extraMins = 0) and
\* minHourlyPay is 0, the verdict and the effective hourly rate of the what-if
\* panel equal the verdict and effectiveHourly that evaluateOffer returned for the
\* same offer and settings.
C28_WhatIfAgreesAtZero ==
  ( /\ PanelShown
    /\ extraMins(form, settings, waitTime) = Zero
    /\ settings.minHourlyPay = Zero ) =>
    LET impact == Impact(form, settings, results, waitTime)
    IN  /\ impact.newVerdict = results.evaluation.verdictText
        /\ impact.newEffectiveHourly = results.effectiveHourly

PayReqCalled == direct.fn = "calculatePayReq"

\* calculatePayReq of the offer of the call with `field` set to v
PayReqWith(field, v) ==
  calculatePayReq(PayReqInput([direct.input EXCEPT ![field] = v]), direct.s)

\* the returned totalMins does not decrease when `field` grows from its value to a
\* larger one of `values`
NonDecreasingIn(field, values) ==
  \A v \in values :
    Ge(v, direct.input[field]) =>
      Ge(PayReqWith(field, v).totalMins, direct.out.totalMins)

\* C29: totalMinutes is non-decreasing in pickups, in miles and in items, and in
\* drops from 2 drops on; from 1 drop to 2 drops the unrounded totalMinutes and
\* requiredPay decrease whenever travelTime * (return1Drop - return2Drop) / 100 >
\* perDrop (and the returned ones do not increase).
C29_TotalMinutesMonotone ==
  PayReqCalled =>
    LET s    == direct.s
        one  == payReqRaw(PayReqInput(direct.input), s)
        two  == payReqRaw(PayReqInput([direct.input EXCEPT !.drops = Whole(2)]), s)
        gain == Div(Mul(one.travelTime, Sub(s.return1Drop, s.return2Drop)), Whole(100))
    IN  /\ NonDecreasingIn("pickups", {Whole(i) : i \in PickupCounts})
        /\ NonDecreasingIn("miles", {Frac(m, 10) : m \in MilesTenths})
        /\ NonDecreasingIn("items", {Whole(i) : i \in 0..(MaxItems + 1)})
        /\ Ge(direct.input.drops, Whole(2)) =>
             NonDecreasingIn("drops", {Whole(i) : i \in 2..(MaxDrops + 1)})
        /\ (direct.input.drops = Whole(1) /\ Gt(gain, s.perDrop)) =>
             /\ Lt(two.totalMins, one.totalMins)
             /\ Lt(two.payReq, one.payReq)
             /\ Le(PayReqWith("drops", Whole(2)).totalMins, direct.out.totalMins)
             /\ Le(PayReqWith("drops", Whole(2)).payReq, direct.out.payReq)

\* a second drop turns a BAD offer into a GOOD one
C29_Witness ==
  /\ Evaluated
  /\ direct.prev = Null
  /\ direct.input.drops = Whole(1)
  /\ direct.out.verdict = "bad"
  /\ Gt(direct.s.perDrop, Zero)
  /\ LET two == evaluateOffer([direct.input EXCEPT !.drops = Whole(2)], direct.s)
     IN  /\ two.verdict = "good"
         /\ Lt(two.totalMinutes, direct.out.totalMinutes)
         /\ Lt(two.requiredPay, direct.out.requiredPay)

\* the sum of the five returned breakdown fields minus the returned totalMinutes
BreakdownGap(e) ==
  Sub(Add(Add(Add(Add(e.breakdown.pickup, e.breakdown.travel), e.breakdown.drop),
              e.breakdown.shopping), e.breakdown["return"]),
      e.totalMinutes)

\* C30: in every evaluateOffer result the sum pickup + travel + drop + shopping +
\* return of the returned breakdown differs from the returned totalMinutes by at
\* most 0.02 minutes, and each breakdown field is non-negative (the inputs and
\* settings of the page are non-negative).
C30_BreakdownAccounts ==
  results # Null =>
    LET e == results.evaluation
    IN  /\ Le(BreakdownGap(e), Frac(2, 100))
        /\ Ge(BreakdownGap(e), Frac(-2, 100))
        /\ \A f \in DOMAIN e.breakdown : Ge(e.breakdown[f], Zero)

====
